---- MODULE Spec2Model ----
(***************************************************************************)
(* wikiserieswillemcli: main() validates a series name, asks the external *)
(* resolver search_series for the season -> episodes structure and        *)
(* output_to_folders() materialises it as a directory tree.               *)
(*                                                                         *)
(* The filesystem is a finite map from the paths that exist to their      *)
(* entries; a path is the sequence of its components below the            *)
(* filesystem root, a path outside the map does not exist.                *)
(***************************************************************************)
EXTENDS Integers, Sequences, FiniteSets, TLC

VARIABLES
    name,           \* args.name
    action,         \* args.action
    force,          \* args.force
    output_path,    \* args.output ("None" when the flag is not given)
    wiki,           \* what search_series answers for the name
    series,         \* main's local: the structure the resolver returned
    pc,             \* position of the run
    si,             \* position of the season loop (1-based index of series)
    episode_number, \* enumerate() index of the episode loop (0-based)
    err,            \* the exception the run ended with ("none": no exception)
    fs,             \* the filesystem
    fs0,            \* the filesystem when the first run started
    called,         \* has search_series been called
    last,           \* the latest filesystem call of the run and what it met
    attempt,        \* "first", or how the run before this one ended
    prev            \* force and final filesystem of the run before this one

vars == <<name, action, force, output_path, wiki, series, pc, si,
          episode_number, err, fs, fs0, called, last, attempt, prev>>

\* ------------------------------------------------------------------ bounds

MaxEpisodes == 2

\* The season labels the resolver answers with, in its (insertion) order.
SeasonKeys == <<"Season 1", "Season 2">>

\* "" is rejected, " " is whitespace-only, "Lost" is an ordinary name.
Names == {"", " ", "Lost"}

\* ------------------------------------------------------------- formatting

DigitChars == <<"0", "1", "2", "3", "4", "5", "6", "7", "8", "9">>

RECURSIVE Decimal(_)
\* str(n) for n >= 0
Decimal(n) ==
    IF n < 10 THEN DigitChars[n + 1]
    ELSE Decimal(n \div 10) \o DigitChars[(n % 10) + 1]

\* f"{n:02d}": decimal, zero-padded on the left to width 2
Format02d(n) == IF n < 10 THEN "0" \o Decimal(n) ELSE Decimal(n)

\* ------------------------------------------------------------- filesystem

Dir == [kind |-> "dir", content |-> ""]
File(c) == [kind |-> "file", content |-> c]

Parent(p) == SubSeq(p, 1, Len(p) - 1)

\* The kind of what is at p; the filesystem root <<>> is a directory.
Kind(f, p) ==
    IF p = <<>> THEN "dir"
    ELSE IF p \in DOMAIN f THEN f[p].kind
    ELSE "absent"

Put(f, p, e) == IF p \in DOMAIN f THEN [f EXCEPT ![p] = e] ELSE (p :> e) @@ f

\* Some proper ancestor of p is a regular file (ENOTDIR on the way to p).
BlockedByFile(f, p) ==
    /\ Kind(f, Parent(p)) # "dir"
    /\ \E k \in 1..(Len(p) - 1) : Kind(f, SubSeq(p, 1, k)) = "file"

\* Path.exists(): stat() succeeds; ENOENT and ENOTDIR both answer False.
PathExists(f, p) == Kind(f, p) # "absent" /\ ~BlockedByFile(f, p)

Ok(f) == [fs |-> f, err |-> "none"]
Fail(f, e) == [fs |-> f, err |-> e]

RECURSIVE Mkdir(_, _, _)
\* Path.mkdir(parents=True, exist_ok=exist_ok)
Mkdir(f, p, exist_ok) ==
    IF p = <<>> THEN (IF exist_ok THEN Ok(f) ELSE Fail(f, "FileExistsError"))
    ELSE IF BlockedByFile(f, p) THEN Fail(f, "NotADirectoryError")
    ELSE IF Kind(f, Parent(p)) = "absent"
         THEN LET r == Mkdir(f, Parent(p), TRUE)
              IN  IF r.err # "none" THEN r ELSE Ok(Put(r.fs, p, Dir))
    ELSE IF Kind(f, p) = "absent" THEN Ok(Put(f, p, Dir))
    ELSE IF exist_ok /\ Kind(f, p) = "dir" THEN Ok(f)
    ELSE Fail(f, "FileExistsError")

\* with open(path, filemode) as f: f.write(content)
OpenAndWrite(f, p, filemode, content) ==
    IF BlockedByFile(f, p) THEN Fail(f, "NotADirectoryError")
    ELSE IF Kind(f, Parent(p)) = "absent" THEN Fail(f, "FileNotFoundError")
    ELSE IF filemode = "x" /\ Kind(f, p) # "absent"
         THEN Fail(f, "FileExistsError")
    ELSE IF Kind(f, p) = "dir" THEN Fail(f, "IsADirectoryError")
    ELSE Ok(Put(f, p, File(content)))

\* ------------------------------------------------------ the program's code

\* A name check that strips the name first.
is_valid_name_stripped(n) == IF n \in {"", " "} THEN FALSE ELSE TRUE

is_valid_name(n) == IF Len(n) = 0 THEN FALSE ELSE TRUE

\* create_folder without its exists() test.
create_folder_unchecked(f, path) == Mkdir(f, path, FALSE)

create_folder(f, path) ==
    IF ~PathExists(f, path) THEN Mkdir(f, path, FALSE) ELSE Ok(f)

\* write_contents that opens with "w" whatever filemode it is given.
write_contents_always_w(f, path, content, filemode, force_arg) ==
    OpenAndWrite(f, path, "w", content)

\* write_contents without its except clause.
write_contents_raising(f, path, content, filemode, force_arg) ==
    OpenAndWrite(f, path, filemode, content)

\* write_contents that opens with "a" where it is given "w".
write_contents_appending(f, path, content, filemode, force_arg) ==
    LET r == OpenAndWrite(f, path, filemode,
                          IF filemode = "w" /\ Kind(f, path) = "file"
                          THEN f[path].content \o content ELSE content)
    IN  IF r.err = "FileExistsError" THEN Ok(f) ELSE r

write_contents(f, path, content, filemode, force_arg) ==
    LET r == OpenAndWrite(f, path, filemode, content)
    IN  IF r.err = "FileExistsError" THEN Ok(f) ELSE r

\* cwd = Path.cwd() if output_path == None else Path(output_path)
Cwd(out) == IF out = "None" THEN <<"cwd">> ELSE <<out>>

\* Path(cwd, name): an empty component adds nothing to the path.
SeriesFolder(out, n) == IF n = "" THEN Cwd(out) ELSE Cwd(out) \o <<n>>
MarkerFile(out, n) == SeriesFolder(out, n) \o <<".wikiseries">>
SeasonFolder(out, n, season) == SeriesFolder(out, n) \o <<season>>
\* The file named by the 0-based index.
EpisodeFile_zero_based(out, n, season, i) ==
    SeasonFolder(out, n, season) \o <<"Episode_" \o Format02d(i)>>

EpisodeFile(out, n, season, i) ==
    SeasonFolder(out, n, season) \o <<"Episode_" \o Format02d(i + 1)>>
\* Exclusive creation whatever force is.
EpisodeMode_exclusive(force_arg) == "x"

EpisodeMode(force_arg) == IF force_arg THEN "w" ELSE "x"
\* The text with the 1-based number of the file name.
EpisodeContent_one_based(i) == "Episode: " \o Format02d(i + 1)

EpisodeContent(i) == "Episode: " \o Format02d(i)
MarkerContent == "true"

\* ------------------------------------------------- inputs and first states

Titles == {"title"}
EpisodeLists == UNION {[1..n -> Titles] : n \in 0..MaxEpisodes}
SeasonRecs == [season : {SeasonKeys[j] : j \in 1..Len(SeasonKeys)},
               episodes : EpisodeLists]

\* The structures search_series can answer with: a dict, so the season keys
\* are distinct; iteration order is insertion order.
Structures ==
    {s \in UNION {[1..k -> SeasonRecs] : k \in 0..Len(SeasonKeys)} :
        \A j \in 1..Len(s) : s[j].season = SeasonKeys[j]}

\* The resolver's world: it may know a series called "Lost", with any of the
\* structures, and knows none under any other name (its IndexError).
NotFound == [found |-> FALSE, series |-> <<>>]
WikiAnswers(n) ==
    IF n = "Lost"
    THEN {NotFound} \cup {[found |-> TRUE, series |-> s] : s \in Structures}
    ELSE {NotFound}

\* What may lie below the output folder before the run: every path the run
\* names is absent, a regular file or a directory, and exists only inside a
\* directory.
Kinds == {"absent", "file", "dir"}
Stale == "stale"
EntryOf(k) == IF k = "dir" THEN Dir ELSE File(Stale)

SeasonStates(n) ==
    {[kind |-> k, eps |-> <<>>] : k \in {"absent", "file"}}
        \cup {[kind |-> "dir", eps |-> e] : e \in [1..n -> Kinds]}

RECURSIVE SeasonTuples(_, _)
\* The states of the first j season folders of ser.
SeasonTuples(ser, j) ==
    IF j = 0 THEN {<<>>}
    ELSE {Append(t, s) : t \in SeasonTuples(ser, j - 1),
                         s \in SeasonStates(Len(ser[j].episodes))}

Trees(ser) ==
    {[kind |-> k, marker |-> "absent", seasons |-> <<>>] : k \in {"absent", "file"}}
        \cup {[kind |-> "dir", marker |-> m, seasons |-> ss] :
                m \in Kinds, ss \in SeasonTuples(ser, Len(ser))}

RootKinds(out) == IF out = "None" THEN {"dir"} ELSE Kinds

FsOf(pairs) == [p \in {x[1] : x \in pairs} |-> (CHOOSE x \in pairs : x[1] = p)[2]]

TreePairs(out, n, ser, rootKind, tree) ==
    (IF rootKind # "absent" THEN {<<Cwd(out), EntryOf(rootKind)>>} ELSE {})
    \cup (IF tree.kind # "absent"
          THEN {<<SeriesFolder(out, n), EntryOf(tree.kind)>>} ELSE {})
    \cup (IF tree.marker # "absent"
          THEN {<<MarkerFile(out, n), EntryOf(tree.marker)>>} ELSE {})
    \cup {<<SeasonFolder(out, n, ser[j].season), EntryOf(tree.seasons[j].kind)>> :
            j \in {j \in 1..Len(tree.seasons) : tree.seasons[j].kind # "absent"}}
    \cup UNION {
            {<<EpisodeFile(out, n, ser[j].season, i - 1),
               EntryOf(tree.seasons[j].eps[i])>> :
                i \in {i \in 1..Len(tree.seasons[j].eps) :
                          tree.seasons[j].eps[i] # "absent"}} :
            j \in 1..Len(tree.seasons)}

NoCall == [op |-> "none", path |-> <<>>, content |-> "", filemode |-> "",
           force |-> FALSE, before |-> "absent", old |-> ""]

Init ==
    /\ name \in Names
    /\ action \in {"add", "remove"}
    /\ force \in BOOLEAN
    /\ output_path \in {"None", "out"}
    /\ wiki \in WikiAnswers(name)
    /\ \E rootKind \in RootKinds(output_path) :
         \E tree \in Trees(wiki.series) :
            /\ IF SeriesFolder(output_path, name) = Cwd(output_path)
               THEN tree.kind = rootKind
               ELSE rootKind # "dir" => tree.kind = "absent"
            /\ fs = FsOf(TreePairs(output_path, name, wiki.series, rootKind, tree))
    /\ fs0 = fs
    /\ series = <<>>
    /\ pc = "main"
    /\ si = 1
    /\ episode_number = 0
    /\ err = "none"
    /\ called = FALSE
    /\ last = NoCall
    /\ attempt = "first"
    /\ prev = [force |-> FALSE, fs |-> fs]

\* -------------------------------------------------- output_to_folders, whole

RECURSIVE Episodes(_, _, _, _, _, _, _)
\* for episode_number, episode_title in enumerate(episodes), from index i on
Episodes(f, n, ser, out, force_arg, j, i) ==
    IF i >= Len(ser[j].episodes) THEN Ok(f)
    ELSE LET r == write_contents(f, EpisodeFile(out, n, ser[j].season, i),
                                 EpisodeContent(i), EpisodeMode(force_arg), force_arg)
         IN  IF r.err # "none" THEN r
             ELSE Episodes(r.fs, n, ser, out, force_arg, j, i + 1)

RECURSIVE Seasons(_, _, _, _, _, _)
\* for season, episodes in series.items(), from the j-th item on
Seasons(f, n, ser, out, force_arg, j) ==
    IF j > Len(ser) THEN Ok(f)
    ELSE LET r == create_folder(f, SeasonFolder(out, n, ser[j].season))
         IN  IF r.err # "none" THEN r
             ELSE LET e == Episodes(r.fs, n, ser, out, force_arg, j, 0)
                  IN  IF e.err # "none" THEN e
                      ELSE Seasons(e.fs, n, ser, out, force_arg, j + 1)

output_to_folders(f, n, ser, out, force_arg) ==
    LET r == create_folder(f, SeriesFolder(out, n))
    IN  IF r.err # "none" THEN r
        ELSE LET m == write_contents(r.fs, MarkerFile(out, n), MarkerContent, "w", FALSE)
             IN  IF m.err # "none" THEN m
                 ELSE Seasons(m.fs, n, ser, out, force_arg, 1)

\* ------------------------------------------------------------------ actions

Call(op, path, content, filemode, force_arg) ==
    [op |-> op, path |-> path, content |-> content, filemode |-> filemode,
     force |-> force_arg, before |-> Kind(fs, path),
     old |-> IF Kind(fs, path) = "file" THEN fs[path].content ELSE ""]

\* Where the season loop goes on from its j-th item.
SeasonLoop(j) == IF j > Len(series) THEN "returned" ELSE "create_season_folder"

args == <<name, action, force, output_path, wiki>>
history == <<fs0, attempt, prev>>

\* main, up to the name check. The branch for action "remove" is `pass`:
\* whatever the action, the run goes on to the name check.
Validate ==
    /\ pc = "main"
    /\ action \in {"add", "remove"}
    /\ IF is_valid_name(name)
       THEN pc' = "search" /\ err' = err
       ELSE pc' = "raised" /\ err' = "InvalidNameError"
    /\ UNCHANGED <<args, history, series, si, episode_number, fs, called, last>>

\* A search step that goes on with an empty structure when the resolver fails.
Search_ignoring_failure ==
    /\ pc = "search"
    /\ called' = TRUE
    /\ series' = wiki.series
    /\ pc' = "create_series_folder"
    /\ UNCHANGED <<args, history, si, episode_number, err, fs, last>>

\* main: series = search_series(args.name), IndexError -> SeriesNotFoundError
Search ==
    /\ pc = "search"
    /\ called' = TRUE
    /\ IF wiki.found
       THEN series' = wiki.series /\ pc' = "create_series_folder" /\ err' = err
       ELSE series' = series /\ pc' = "raised" /\ err' = "SeriesNotFoundError"
    /\ UNCHANGED <<args, history, si, episode_number, fs, last>>

\* output_to_folders: create_folder(series_folder)
CreateSeriesFolder ==
    /\ pc = "create_series_folder"
    /\ LET path == SeriesFolder(output_path, name)
           r == create_folder(fs, path)
       IN  /\ fs' = r.fs
           /\ err' = r.err
           /\ last' = Call("create_folder", path, "", "", FALSE)
           /\ pc' = IF r.err # "none" THEN "raised" ELSE "write_marker"
    /\ UNCHANGED <<args, history, series, si, episode_number, called>>

\* output_to_folders: write_contents(markerfile, "true")
WriteMarker ==
    /\ pc = "write_marker"
    /\ LET path == MarkerFile(output_path, name)
           r == write_contents(fs, path, MarkerContent, "w", FALSE)
       IN  /\ fs' = r.fs
           /\ err' = r.err
           /\ last' = Call("write_contents", path, MarkerContent, "w", FALSE)
           /\ pc' = IF r.err # "none" THEN "raised" ELSE SeasonLoop(1)
    /\ si' = 1
    /\ UNCHANGED <<args, history, series, episode_number, called>>

\* output_to_folders: create_folder(season_folder) for the si-th season
CreateSeasonFolder ==
    /\ pc = "create_season_folder"
    /\ LET path == SeasonFolder(output_path, name, series[si].season)
           r == create_folder(fs, path)
           empty == Len(series[si].episodes) = 0
       IN  /\ fs' = r.fs
           /\ err' = r.err
           /\ last' = Call("create_folder", path, "", "", FALSE)
           /\ pc' = IF r.err # "none" THEN "raised"
                    ELSE IF empty THEN SeasonLoop(si + 1) ELSE "write_episode"
           /\ si' = IF r.err = "none" /\ empty THEN si + 1 ELSE si
    /\ episode_number' = 0
    /\ UNCHANGED <<args, history, series, called>>

\* output_to_folders: one turn of the episode loop
WriteEpisode ==
    /\ pc = "write_episode"
    /\ LET path == EpisodeFile(output_path, name, series[si].season, episode_number)
           content == EpisodeContent(episode_number)
           filemode == EpisodeMode(force)
           r == write_contents(fs, path, content, filemode, force)
           lastOne == episode_number + 1 >= Len(series[si].episodes)
       IN  /\ fs' = r.fs
           /\ err' = r.err
           /\ last' = Call("write_contents", path, content, filemode, force)
           /\ pc' = IF r.err # "none" THEN "raised"
                    ELSE IF lastOne THEN SeasonLoop(si + 1) ELSE "write_episode"
           /\ si' = IF r.err = "none" /\ lastOne THEN si + 1 ELSE si
           /\ episode_number' = IF r.err = "none" /\ ~lastOne
                                THEN episode_number + 1 ELSE episode_number
    /\ UNCHANGED <<args, history, series, called>>

InOutputToFolders ==
    pc \in {"create_series_folder", "write_marker", "create_season_folder",
            "write_episode"}

\* The process is stopped between two filesystem calls of output_to_folders
\* (nothing is rolled back) and the same command is run again: the name is
\* valid and the resolver answers as before, so the second run is
\* output_to_folders with the same arguments on the filesystem the first run
\* left.
InterruptAndRetry ==
    /\ attempt = "first"
    /\ InOutputToFolders
    /\ \E r \in {output_to_folders(fs, name, series, output_path, force)} :
           /\ fs' = r.fs
           /\ err' = r.err
           /\ pc' = IF r.err # "none" THEN "raised" ELSE "returned"
    /\ attempt' = "retry"
    /\ prev' = [force |-> force, fs |-> fs]
    /\ UNCHANGED <<name, action, output_path, wiki, force, fs0, series, si,
                   episode_number, called, last>>

\* The command is run again after a run that returned, with either --force.
RunAgain ==
    /\ attempt = "first"
    /\ pc = "returned"
    /\ \E again \in BOOLEAN :
         \E r \in {output_to_folders(fs, name, series, output_path, again)} :
             /\ force' = again
             /\ fs' = r.fs
             /\ err' = r.err
             /\ pc' = IF r.err # "none" THEN "raised" ELSE "returned"
    /\ attempt' = "again"
    /\ prev' = [force |-> force, fs |-> fs]
    /\ last' = NoCall
    /\ UNCHANGED <<name, action, output_path, wiki, fs0, series, si,
                   episode_number, called>>

Next ==
    \/ Validate
    \/ Search
    \/ CreateSeriesFolder
    \/ WriteMarker
    \/ CreateSeasonFolder
    \/ WriteEpisode
    \/ InterruptAndRetry
    \/ RunAgain

Spec == Init /\ [][Next]_vars

\* The step-by-step run and output_to_folders taken whole agree.
StepsAgreeWithWhole ==
    (attempt = "first" /\ called /\ wiki.found /\ pc \in {"returned", "raised"}) =>
        LET r == output_to_folders(fs0, name, series, output_path, force)
        IN  fs = r.fs /\ err = r.err

\* Whatever exists lies inside a directory.
WellFormed ==
    \A p \in DOMAIN fs : Kind(fs, Parent(p)) = "dir"

\* ------------------------------------------------------------ the claims

\* The names and texts of the first episodes, written out.
EpisodeNames == <<"Episode_01", "Episode_02", "Episode_03", "Episode_04", "Episode_05">>
EpisodeTexts == <<"Episode: 00", "Episode: 01", "Episode: 02", "Episode: 03", "Episode: 04">>

Folder == SeriesFolder(output_path, name)
Marker == Folder \o <<".wikiseries">>
SeasonPath(j) == Folder \o <<wiki.series[j].season>>
EpisodePath(j, k) == Folder \o <<wiki.series[j].season, EpisodeNames[k]>>
SeasonNumbers == 1..Len(wiki.series)
EpisodeNumbers(j) == 1..Len(wiki.series[j].episodes)

\* output_to_folders has been entered.
Entered == called /\ wiki.found
\* The filesystem the latest run of output_to_folders started on.
StartFs == IF attempt = "first" THEN fs0 ELSE prev.fs
WroteOverFile ==
    attempt = "first" /\ last.op = "write_contents" /\ last.before = "file"

\* C1 as stated: a write_contents call on an existing file leaves the old
\* content when it is made with force=false and the new content when it is
\* made with force=true, the marker write (force=false by default) included.
C1_ForceDecides ==
    WroteOverFile =>
        fs[last.path] = File(IF last.force THEN last.content ELSE last.old)

\* C1 amended: on an existing file the filemode decides. An episode write
\* has filemode "x" exactly when force=false and then leaves the old
\* content, and filemode "w" when force=true and then leaves the new
\* content; the marker write passes neither argument, so it has filemode
\* "w" with force=false and leaves exactly "true".
C1_ModeDecides ==
    WroteOverFile =>
        /\ fs[last.path] = File(IF last.filemode = "w" THEN last.content ELSE last.old)
        /\ last.filemode \in {"w", "x"}
        /\ IF last.path = Marker
           THEN last.filemode = "w" /\ ~last.force /\ last.content = "true"
           ELSE last.force = force /\ (last.filemode = "w") = force

C1_Witness ==
    /\ WroteOverFile
    /\ last.filemode = "x"
    /\ last.old = Stale
    /\ Kind(fs0, Marker) = "file"

\* C2: once output_to_folders has returned, running it again with the same
\* arguments and force=false raises nothing and leaves every path and every
\* content as the first run left it, whatever force the first run had.
C2_RerunWithoutForceChangesNothing ==
    (attempt = "again" /\ ~force) =>
        pc = "returned" /\ err = "none" /\ fs = prev.fs

C2_Witness ==
    /\ attempt = "again"
    /\ ~force
    /\ prev.force
    /\ pc = "returned"
    /\ Len(wiki.series) = 2
    /\ \A j \in SeasonNumbers : Len(wiki.series[j].episodes) > 0

\* C3: a run with force=true that returns leaves every episode file of
\* every season with the content computed for it, whatever it held; and
\* the marker holds "true" after every run that returns, and after every
\* run that found a marker file, with either force.
C3_ForceOverwrites ==
    /\ (Entered /\ pc = "returned" /\ force) =>
          \A j \in SeasonNumbers : \A k \in EpisodeNumbers(j) :
              Kind(fs, EpisodePath(j, k)) = "file"
                  /\ fs[EpisodePath(j, k)].content = EpisodeTexts[k]
    /\ (Entered /\ (pc = "returned"
                      \/ (pc = "raised" /\ Kind(StartFs, Marker) = "file"))) =>
          Kind(fs, Marker) = "file" /\ fs[Marker].content = "true"

C3_Witness ==
    /\ attempt = "first"
    /\ pc = "returned"
    /\ force
    /\ Kind(fs0, Marker) = "file"
    /\ fs0[Marker].content = Stale
    /\ Len(wiki.series) = 2
    /\ \A j \in SeasonNumbers :
          /\ Len(wiki.series[j].episodes) = 2
          /\ \A k \in EpisodeNumbers(j) : Kind(fs0, EpisodePath(j, k)) = "file"

\* C4: when search_series fails, main ends by raising SeriesNotFoundError
\* and at no point of the run is a folder created or a file written.
C4_NotFoundWritesNothing ==
    (is_valid_name(name) /\ ~wiki.found) =>
        /\ fs = fs0
        /\ pc \in {"main", "search", "raised"}
        /\ called = (pc = "raised")
        /\ err = (IF pc = "raised" THEN "SeriesNotFoundError" ELSE "none")

C4_Witness ==
    /\ called
    /\ ~wiki.found
    /\ pc = "raised"
    /\ err = "SeriesNotFoundError"
    /\ Kind(fs, Folder) = "absent"
    /\ Kind(fs, Cwd(output_path)) = "dir"

\* C5: a run with action=remove leaves the filesystem as it was.
C5_RemoveIsNoOp == action = "remove" => fs = fs0

RECURSIVE TotalEpisodes(_)
\* The sum of the lengths of the first j episode lists.
TotalEpisodes(j) ==
    IF j = 0 THEN 0 ELSE TotalEpisodes(j - 1) + Len(wiki.series[j].episodes)

\* C6: from a series folder that does not exist, a run that returns leaves
\* below the series folder exactly the marker, one folder per season key
\* and in it exactly the files Episode_01 .. Episode_n; and the run does
\* return unless the output folder is a regular file.
C6_ExactTree ==
    (attempt = "first" /\ Entered /\ Kind(fs0, Folder) = "absent") =>
        /\ pc = "raised" => Kind(fs0, Cwd(output_path)) = "file"
        /\ pc = "returned" =>
            /\ {p \in DOMAIN fs : Len(p) >= Len(Folder)
                                    /\ SubSeq(p, 1, Len(Folder)) = Folder}
                 = {Folder, Marker}
                     \cup {SeasonPath(j) : j \in SeasonNumbers}
                     \cup UNION {{EpisodePath(j, k) : k \in EpisodeNumbers(j)} :
                                   j \in SeasonNumbers}
            /\ Kind(fs, Folder) = "dir"
            /\ \A j \in SeasonNumbers :
                  /\ Kind(fs, SeasonPath(j)) = "dir"
                  /\ \A k \in EpisodeNumbers(j) : Kind(fs, EpisodePath(j, k)) = "file"
            /\ Cardinality({p \in DOMAIN fs : Len(p) = Len(Folder) + 2})
                 = TotalEpisodes(Len(wiki.series))

C6_Witness ==
    /\ attempt = "first"
    /\ pc = "returned"
    /\ Kind(fs0, Folder) = "absent"
    /\ Len(wiki.series) = 2
    /\ Len(wiki.series[1].episodes) = 2
    /\ Len(wiki.series[2].episodes) = 1
    /\ Cardinality({p \in DOMAIN fs : Len(p) = Len(Folder) + 2}) = 3

\* C7: every episode write is of the text "Episode: <i>" to the file
\* Episode_<i+1>, i the 0-based position; so after a run that returns,
\* every episode file that was absent before or written with force=true
\* holds the number one less than the number in its name.
C7_ContentOneLessThanName ==
    /\ (attempt = "first" /\ last.op = "write_contents" /\ last.path # Marker) =>
          \E j \in SeasonNumbers : \E k \in EpisodeNumbers(j) :
              last.path = EpisodePath(j, k) /\ last.content = EpisodeTexts[k]
    /\ (attempt = "first" /\ Entered /\ pc = "returned") =>
          \A j \in SeasonNumbers : \A k \in EpisodeNumbers(j) :
              (force \/ Kind(fs0, EpisodePath(j, k)) = "absent") =>
                  fs[EpisodePath(j, k)] = File(EpisodeTexts[k])

C7_Witness ==
    /\ attempt = "first"
    /\ pc = "returned"
    /\ ~force
    /\ Len(wiki.series) = 2
    /\ Len(wiki.series[2].episodes) = 2
    /\ Kind(fs0, EpisodePath(2, 1)) = "file"
    /\ Kind(fs0, EpisodePath(2, 2)) = "absent"
    /\ fs[EpisodePath(2, 2)].content = "Episode: 01"

\* Every path of the run that exists is of the kind the run expects: the
\* output folder, the series folder and the season folders are
\* directories, the marker and the episode paths are regular files.
WellTyped(f) ==
    /\ Kind(f, Cwd(output_path)) # "file"
    /\ Kind(f, Folder) # "file"
    /\ Kind(f, Marker) # "dir"
    /\ \A j \in SeasonNumbers :
          /\ Kind(f, SeasonPath(j)) # "file"
          /\ \A k \in EpisodeNumbers(j) : Kind(f, EpisodePath(j, k)) # "dir"

\* C8 as stated: whatever already exists, as a file or as a directory,
\* output_to_folders never ends with an error.
C8_NeverRaises == Entered => err = "none"

\* C8 amended: when every path that already exists is of the kind the run
\* expects, output_to_folders ends without an error for both values of
\* force.
C8_NeverRaisesWhenWellTyped ==
    (Entered /\ (err # "none" \/ pc = "raised")) => ~WellTyped(fs0)

C8_Witness ==
    /\ attempt = "first"
    /\ pc = "returned"
    /\ ~force
    /\ WellTyped(fs0)
    /\ Kind(fs0, Marker) = "file"
    /\ Len(wiki.series) = 2
    /\ \A j \in SeasonNumbers :
          /\ Len(wiki.series[j].episodes) = 2
          /\ Kind(fs0, EpisodePath(j, 1)) = "file"
          /\ Kind(fs0, EpisodePath(j, 2)) = "absent"

\* C9: main raises InvalidNameError exactly for the empty name, and then
\* the resolver has not been called and nothing was created or written.
C9_InvalidNameOnlyForEmpty ==
    /\ (err = "InvalidNameError") = (name = "" /\ pc # "main")
    /\ err = "InvalidNameError" => pc = "raised" /\ ~called /\ fs = fs0
    /\ (name # "" /\ pc = "raised" /\ ~Entered) =>
          called /\ err = "SeriesNotFoundError"

C9_Witness ==
    /\ err = "InvalidNameError"
    /\ name = ""
    /\ pc = "raised"
    /\ Kind(fs0, Marker) = "file"

\* What one uninterrupted run from the first filesystem ends with.
Uninterrupted == output_to_folders(fs0, name, wiki.series, output_path, force)

\* C10 as stated: after an interruption, running the whole operation again
\* raises no error and ends in the state of one uninterrupted run.
C10_RetryCompletes ==
    attempt = "retry" => err = "none" /\ fs = Uninterrupted.fs

\* C10 amended: after an interruption, running the whole operation again
\* ends in the filesystem state of one uninterrupted run from the first
\* state, and raises an error only if that uninterrupted run raises the
\* same error.
C10_RetryEqualsUninterrupted ==
    attempt = "retry" =>
        /\ [fs |-> fs, err |-> err] = Uninterrupted
        /\ pc = (IF err = "none" THEN "returned" ELSE "raised")
        /\ \A p \in DOMAIN prev.fs : p \in DOMAIN fs /\ fs[p].kind = prev.fs[p].kind

C10_Witness ==
    /\ attempt = "retry"
    /\ pc = "returned"
    /\ ~force
    /\ si = 2
    /\ episode_number = 1
    /\ Len(wiki.series[2].episodes) = 2
    /\ Kind(fs0, Folder) = "absent"
    /\ Kind(prev.fs, EpisodePath(2, 1)) = "file"
    /\ Kind(prev.fs, EpisodePath(2, 2)) = "absent"

====
